---------------------------- MODULE Spec2Model ----------------------------
(***************************************************************************)
(* The no_std vault program (Pinocchio/no_std-vault/src/lib.rs) as a state *)
(* machine over the ledger's balances.  The host delivers an instruction   *)
(* (Submit), the program's entrypoint process_instruction runs to          *)
(* completion (Process), and the host takes the result back (Return).      *)
(*                                                                         *)
(* The system program's Transfer and the runtime's check of a derived      *)
(* address signature are not code of the program; they are modelled by     *)
(* what the program relies on: a transfer is atomic, needs the source      *)
(* account to have signed (as a signer of the instruction, or through      *)
(* seeds that derive its address) and needs the source to hold the amount. *)
(***************************************************************************)
EXTENDS Integers, Sequences, FiniteSets, TLC

(*************************** bounds of the model ***************************)
\* lamports each key account holds at the start
InitLamports == 2
\* the largest amount a well-formed Deposit payload encodes (besides 256)
MaxAmount == 3
\* the longest account list the host passes
MaxAccounts == 4
\* how many bump bytes, counted down from 255, have accounts on the ledger
NumBumps == 2
\* the largest discriminator byte the host sends
MaxDisc == 2

(******************************* addresses *********************************)
\* pinocchio_system::ID, the system program's address
SystemID == 0
\* ID, the vault program's own address
ID == 7
\* the loader that owns program accounts: any id that is neither of the above
NativeLoader == ID + 1

\* accounts with a private key: they can sign a transaction
Keys == {1, 2}
\* accounts that hold data of the vault program (owned by ID)
DataAccounts == {3}
Bumps == (256 - NumBumps)..255

\* The runtime's create_program_address(seeds, ID): the hash of the seeds,
\* which is no address when it falls on the curve.  The hash is modelled as an
\* injective map of (address, bump) under the label "vault" (no collisions,
\* and no key or data account is a hash), of which every second value is on
\* the curve.
SeedHash(seeds) == 256 * seeds[2] + seeds[3]
OnCurve(seeds) == (seeds[2] + seeds[3]) % 2 = 0

\* the seed tuples find_program_address walks through for an owner
VaultSeeds(owner, bump) == <<"vault", owner, bump>>
\* the vault addresses that exist: derived from a key, off the curve
PdaAddrs ==
    { SeedHash(VaultSeeds(kb[1], kb[2])) :
        kb \in { x \in Keys \X Bumps : ~OnCurve(VaultSeeds(x[1], x[2])) } }

Addrs == {SystemID} \cup DataAccounts \cup Keys \cup PdaAddrs

\* the owning program of each account of the ledger
OwnerOf(a) ==
    IF a = SystemID THEN NativeLoader
    ELSE IF a \in DataAccounts THEN ID
    ELSE SystemID

(********************************* state ***********************************)
VARIABLES
    lamports,   \* the ledger: balance of every account
    pc,         \* "idle" | "invoked" | "returned"
    call,       \* the instruction in progress: accounts, signers, data
    pre,        \* the ledger when the instruction was invoked
    result,     \* what process_instruction returned
    route,      \* which processor the dispatcher chose, and its payload
    last        \* the instruction before this one, when it succeeded (history)

vars == <<lamports, pc, call, pre, result, route, last>>

NoCall == [accounts |-> <<>>, signers |-> {}, data |-> <<>>]
NoLast == [call |-> NoCall, pre |-> [a \in Addrs |-> 0]]
NoRoute == [to |-> "none", payload |-> <<>>]

(******************************** inputs ***********************************)
\* The amount as 8 little-endian bytes (the client's encoding).
ToLeBytes(a) == [i \in 1..8 |-> IF i = 1 THEN a % 256
                                ELSE IF i = 2 THEN (a \div 256) % 256
                                ELSE 0]
Payloads ==
    { ToLeBytes(a) : a \in 0..MaxAmount } \cup
    { ToLeBytes(256), <<>>, SubSeq(ToLeBytes(1), 1, 7), ToLeBytes(1) \o <<0>> }
\* what may follow a discriminator other than 0: nothing, or eight bytes
Trailing == {<<>>, ToLeBytes(1)}
DataSet ==
    {<<>>} \cup { <<0>> \o p : p \in Payloads }
           \cup { <<d>> \o p : d \in 1..MaxDisc, p \in Trailing }

\* Account lists: a key as owner (signing or not), any address as vault, the
\* system program or another account in the third place, extra accounts
\* after it; and every prefix of such a list.
FullLists ==
    { l \in [1..MaxAccounts -> Addrs] :
        /\ l[1] \in Keys
        /\ l[3] \in {SystemID} \cup DataAccounts
        /\ l[4] \in {1} \cup DataAccounts
        /\ \A i \in 5..MaxAccounts : l[i] = 1 }
AccountLists == { SubSeq(l, 1, n) : l \in FullLists, n \in 0..MaxAccounts }

(****************************** the program ********************************)
\* AccountView: what the program reads of the i-th account of the list.
is_signer(c, a) == a \in c.signers
owned_by(a, program) == OwnerOf(a) = program

\* u64::from_le_bytes
FromLeBytes(bytes) ==
    LET RECURSIVE F(_)
        F(s) == IF s = <<>> THEN 0 ELSE Head(s) + 256 * F(Tail(s))
    IN F(bytes)

\* DepositAccounts::try_from without the check of the vault's owner
DepositAccountsTryFromNoOwnerCheck(c) ==
    LET accounts == c.accounts IN
    IF Len(accounts) < 3 THEN [err |-> "NotEnoughAccountKeys"]
    ELSE IF ~is_signer(c, accounts[1]) THEN [err |-> "MissingRequiredSignature"]
    ELSE IF accounts[3] # SystemID THEN [err |-> "IncorrectProgramId"]
    ELSE [err |-> "Ok", owner |-> accounts[1], vault |-> accounts[2],
          system_program |-> accounts[3]]

\* DepositAccounts::try_from
DepositAccountsTryFrom(c) ==
    LET accounts == c.accounts IN
    IF Len(accounts) < 3 THEN [err |-> "NotEnoughAccountKeys"]
    ELSE IF ~is_signer(c, accounts[1]) THEN [err |-> "MissingRequiredSignature"]
    ELSE IF ~owned_by(accounts[2], SystemID) THEN [err |-> "InvalidAccountOwner"]
    ELSE IF accounts[3] # SystemID THEN [err |-> "IncorrectProgramId"]
    ELSE [err |-> "Ok", owner |-> accounts[1], vault |-> accounts[2],
          system_program |-> accounts[3]]

\* DepositData::try_from that accepts any payload of at least 8 bytes
DepositDataTryFromAtLeast8(data) ==
    IF Len(data) < 8 THEN [err |-> "InvalidInstructionData"]
    ELSE LET amount == FromLeBytes(SubSeq(data, 1, 8)) IN
         IF amount = 0 THEN [err |-> "InvalidInstructionData"]
         ELSE [err |-> "Ok", amount |-> amount]

\* DepositData::try_from without the check of a zero amount
DepositDataTryFromNoZeroCheck(data) ==
    IF Len(data) # 8 THEN [err |-> "InvalidInstructionData"]
    ELSE [err |-> "Ok", amount |-> FromLeBytes(data)]

\* DepositData::try_from
DepositDataTryFrom(data) ==
    IF Len(data) # 8 THEN [err |-> "InvalidInstructionData"]
    ELSE LET amount == FromLeBytes(data) IN
         IF amount = 0 THEN [err |-> "InvalidInstructionData"]
         ELSE [err |-> "Ok", amount |-> amount]

\* Deposit::try_from: the accounts first, then the data
DepositTryFrom(data, c) ==
    LET accounts == DepositAccountsTryFrom(c) IN
    IF accounts.err # "Ok" THEN [err |-> accounts.err]
    ELSE LET d == DepositDataTryFrom(data) IN
         IF d.err # "Ok" THEN [err |-> d.err]
         ELSE [err |-> "Ok", accounts |-> accounts, data |-> d]

\* The system program's Transfer as the runtime runs it for the program:
\* `signed` are the addresses that have signed (the instruction's signers and
\* the addresses derived from the signer seeds).  Balances are u64; the sum
\* of all balances never exceeds the supply, so the credit cannot overflow.
Transfer(lam, from, to, amount, signed) ==
    IF from \notin signed THEN [err |-> "PrivilegeEscalation", lam |-> lam]
    ELSE IF lam[from] < amount THEN [err |-> "InsufficientFunds", lam |-> lam]
    ELSE LET debited == [lam EXCEPT ![from] = @ - amount] IN
         [err |-> "Ok", lam |-> [debited EXCEPT ![to] = @ + amount]]

\* Deposit::process that pays into the last account of the list
DepositProcessToLast(lam, c, d) ==
    Transfer(lam, d.accounts.owner, c.accounts[Len(c.accounts)], d.data.amount, c.signers)

\* Deposit::process that drops the transfer's result
DepositProcessIgnoreError(lam, c, d) ==
    [err |-> "Ok",
     lam |-> Transfer(lam, d.accounts.owner, d.accounts.vault, d.data.amount, c.signers).lam]

\* Deposit::process that credits the vault itself instead of transferring
DepositProcessCreditOnly(lam, c, d) ==
    [err |-> "Ok", lam |-> [lam EXCEPT ![d.accounts.vault] = @ + d.data.amount]]

\* Deposit::process that invokes the transfer a second time
DepositProcessTwice(lam, c, d) ==
    LET first == Transfer(lam, d.accounts.owner, d.accounts.vault, d.data.amount, c.signers) IN
    IF first.err # "Ok" THEN first
    ELSE Transfer(first.lam, d.accounts.owner, d.accounts.vault, d.data.amount, c.signers)

\* Deposit::process
DepositProcess(lam, c, d) ==
    Transfer(lam, d.accounts.owner, d.accounts.vault, d.data.amount, c.signers)

\* WithdrawAccounts::try_from with another byte as the bump
WithdrawAccountsTryFromBump254(lam, c) ==
    LET accounts == c.accounts IN
    IF Len(accounts) < 3 THEN [err |-> "NotEnoughAccountKeys"]
    ELSE IF ~is_signer(c, accounts[1]) THEN [err |-> "MissingRequiredSignature"]
    ELSE IF ~owned_by(accounts[2], SystemID) THEN [err |-> "InvalidAccountOwner"]
    ELSE IF accounts[3] # SystemID THEN [err |-> "IncorrectProgramId"]
    ELSE IF lam[accounts[2]] = 0 THEN [err |-> "InvalidAccountData"]
    ELSE [err |-> "Ok", owner |-> accounts[1], vault |-> accounts[2],
          system_program |-> accounts[3], bumps |-> <<254>>]

\* WithdrawAccounts::try_from that takes a list of exactly three accounts
WithdrawAccountsTryFromExactlyThree(lam, c) ==
    LET accounts == c.accounts IN
    IF Len(accounts) # 3 THEN [err |-> "NotEnoughAccountKeys"]
    ELSE IF ~is_signer(c, accounts[1]) THEN [err |-> "MissingRequiredSignature"]
    ELSE IF ~owned_by(accounts[2], SystemID) THEN [err |-> "InvalidAccountOwner"]
    ELSE IF accounts[3] # SystemID THEN [err |-> "IncorrectProgramId"]
    ELSE IF lam[accounts[2]] = 0 THEN [err |-> "InvalidAccountData"]
    ELSE [err |-> "Ok", owner |-> accounts[1], vault |-> accounts[2],
          system_program |-> accounts[3], bumps |-> <<255>>]

\* WithdrawAccounts::try_from without the check of an empty vault
WithdrawAccountsTryFromNoBalanceCheck(lam, c) ==
    LET accounts == c.accounts IN
    IF Len(accounts) < 3 THEN [err |-> "NotEnoughAccountKeys"]
    ELSE IF ~is_signer(c, accounts[1]) THEN [err |-> "MissingRequiredSignature"]
    ELSE IF ~owned_by(accounts[2], SystemID) THEN [err |-> "InvalidAccountOwner"]
    ELSE IF accounts[3] # SystemID THEN [err |-> "IncorrectProgramId"]
    ELSE [err |-> "Ok", owner |-> accounts[1], vault |-> accounts[2],
          system_program |-> accounts[3], bumps |-> <<255>>]

\* WithdrawAccounts::try_from with the vault's owner checked before the signer
WithdrawAccountsTryFromOwnerFirst(lam, c) ==
    LET accounts == c.accounts IN
    IF Len(accounts) < 3 THEN [err |-> "NotEnoughAccountKeys"]
    ELSE IF ~owned_by(accounts[2], SystemID) THEN [err |-> "InvalidAccountOwner"]
    ELSE IF ~is_signer(c, accounts[1]) THEN [err |-> "MissingRequiredSignature"]
    ELSE IF accounts[3] # SystemID THEN [err |-> "IncorrectProgramId"]
    ELSE IF lam[accounts[2]] = 0 THEN [err |-> "InvalidAccountData"]
    ELSE [err |-> "Ok", owner |-> accounts[1], vault |-> accounts[2],
          system_program |-> accounts[3], bumps |-> <<255>>]

\* WithdrawAccounts::try_from without its signer check
WithdrawAccountsTryFromNoSigner(lam, c) ==
    LET accounts == c.accounts IN
    IF Len(accounts) < 3 THEN [err |-> "NotEnoughAccountKeys"]
    ELSE IF ~owned_by(accounts[2], SystemID) THEN [err |-> "InvalidAccountOwner"]
    ELSE IF accounts[3] # SystemID THEN [err |-> "IncorrectProgramId"]
    ELSE IF lam[accounts[2]] = 0 THEN [err |-> "InvalidAccountData"]
    ELSE [err |-> "Ok", owner |-> accounts[1], vault |-> accounts[2],
          system_program |-> accounts[3], bumps |-> <<255>>]

\* WithdrawAccounts::try_from
WithdrawAccountsTryFrom(lam, c) ==
    LET accounts == c.accounts IN
    IF Len(accounts) < 3 THEN [err |-> "NotEnoughAccountKeys"]
    ELSE IF ~is_signer(c, accounts[1]) THEN [err |-> "MissingRequiredSignature"]
    ELSE IF ~owned_by(accounts[2], SystemID) THEN [err |-> "InvalidAccountOwner"]
    ELSE IF accounts[3] # SystemID THEN [err |-> "IncorrectProgramId"]
    ELSE IF lam[accounts[2]] = 0 THEN [err |-> "InvalidAccountData"]
    ELSE [err |-> "Ok", owner |-> accounts[1], vault |-> accounts[2],
          system_program |-> accounts[3], bumps |-> <<255>>]

\* Withdraw::try_from
WithdrawTryFrom(lam, c) ==
    LET accounts == WithdrawAccountsTryFrom(lam, c) IN
    IF accounts.err # "Ok" THEN [err |-> accounts.err]
    ELSE [err |-> "Ok", accounts |-> accounts]

\* the signer seeds Withdraw::process builds
WithdrawSeeds(w) == <<"vault", w.accounts.owner, w.accounts.bumps[1]>>

\* Transfer::invoke_signed: the runtime derives the address of the seeds (and
\* fails when they give none) and counts it among the signers.
InvokeSigned(lam, from, to, amount, signers, seeds) ==
    IF OnCurve(seeds) THEN [err |-> "InvalidSeeds", lam |-> lam]
    ELSE Transfer(lam, from, to, amount, signers \cup {SeedHash(seeds)})

\* Withdraw::process that transfers the owner's balance instead of the vault's
WithdrawProcessOwnerLamports(lam, c, w) ==
    InvokeSigned(lam, w.accounts.vault, w.accounts.owner,
                 lam[w.accounts.owner], c.signers, WithdrawSeeds(w))

\* Withdraw::process
WithdrawProcess(lam, c, w) ==
    InvokeSigned(lam, w.accounts.vault, w.accounts.owner,
                 lam[w.accounts.vault], c.signers, WithdrawSeeds(w))

\* the match of process_instruction handing Deposit the whole data
DispatchWholeData(data) ==
    IF data = <<>> THEN NoRoute
    ELSE IF Head(data) = 0 THEN [to |-> "Deposit", payload |-> data]
    ELSE IF Head(data) = 1 THEN [to |-> "Withdraw", payload |-> <<>>]
    ELSE NoRoute

\* the match of process_instruction
Dispatch(data) ==
    IF data = <<>> THEN NoRoute
    ELSE IF Head(data) = 0 THEN [to |-> "Deposit", payload |-> Tail(data)]
    ELSE IF Head(data) = 1 THEN [to |-> "Withdraw", payload |-> <<>>]
    ELSE NoRoute

\* process_instruction
process_instruction(lam, c) ==
    LET r == Dispatch(c.data) IN
    IF r.to = "Deposit" THEN
        LET d == DepositTryFrom(r.payload, c) IN
        IF d.err # "Ok" THEN [err |-> d.err, lam |-> lam, route |-> r]
        ELSE [err |-> DepositProcess(lam, c, d).err,
              lam |-> DepositProcess(lam, c, d).lam, route |-> r]
    ELSE IF r.to = "Withdraw" THEN
        LET w == WithdrawTryFrom(lam, c) IN
        IF w.err # "Ok" THEN [err |-> w.err, lam |-> lam, route |-> r]
        ELSE [err |-> WithdrawProcess(lam, c, w).err,
              lam |-> WithdrawProcess(lam, c, w).lam, route |-> r]
    ELSE [err |-> "InvalidInstructionData", lam |-> lam, route |-> r]

(******************************** actions **********************************)
Init ==
    /\ lamports = [a \in Addrs |-> IF a \in Keys THEN InitLamports ELSE 0]
    /\ pc = "idle"
    /\ call = NoCall
    /\ pre = lamports
    /\ result = "none"
    /\ route = NoRoute
    /\ last = NoLast

\* the host invokes the entrypoint with an account list and instruction data
Submit ==
    /\ pc = "idle"
    /\ \E accounts \in AccountLists, signers \in SUBSET Keys, data \in DataSet :
          call' = [accounts |-> accounts, signers |-> signers, data |-> data]
    /\ pc' = "invoked"
    /\ pre' = lamports
    /\ UNCHANGED <<lamports, result, route, last>>

\* process_instruction runs to its return
Process ==
    /\ pc = "invoked"
    /\ LET out == process_instruction(lamports, call) IN
          /\ lamports' = out.lam
          /\ result' = out.err
          /\ route' = out.route
    /\ pc' = "returned"
    /\ UNCHANGED <<call, pre, last>>

\* the host takes the result; the program keeps nothing between instructions
Return ==
    /\ pc = "returned"
    /\ pc' = "idle"
    /\ call' = NoCall
    /\ pre' = lamports
    /\ result' = "none"
    /\ route' = NoRoute
    /\ UNCHANGED <<lamports, last>>

Next == Submit \/ Process \/ Return

Spec == Init /\ [][Next]_vars

(******************** two instructions in a row ****************************)
\* Well-formed instructions: three accounts, a Withdraw or a Deposit of a
\* positive amount.  The accounts themselves may be any, valid or not.
CoreLists == { l \in AccountLists : Len(l) = 3 }
CoreData == {<<1>>} \cup { <<0>> \o ToLeBytes(a) : a \in 1..MaxAmount }

\* the host invokes the entrypoint with a well-formed instruction
SubmitCore ==
    /\ pc = "idle"
    /\ \E accounts \in CoreLists, signers \in SUBSET Keys, data \in CoreData :
          call' = [accounts |-> accounts, signers |-> signers, data |-> data]
    /\ pc' = "invoked"
    /\ pre' = lamports
    /\ UNCHANGED <<lamports, result, route, last>>

\* the host takes the result, and the history keeps the instruction when it
\* succeeded
ReturnRecord ==
    /\ pc = "returned"
    /\ pc' = "idle"
    /\ last' = IF result = "Ok" THEN [call |-> call, pre |-> pre] ELSE NoLast
    /\ call' = NoCall
    /\ pre' = lamports
    /\ result' = "none"
    /\ route' = NoRoute
    /\ UNCHANGED lamports

NextHistory == SubmitCore \/ Process \/ ReturnRecord

SpecHistory == Init /\ [][NextHistory]_vars

TypeOK ==
    /\ lamports \in [Addrs -> Nat]
    /\ pc \in {"idle", "invoked", "returned"}

(************************ reading a returned call **************************)
Returned == pc = "returned"
HasThree == Len(call.accounts) >= 3
Owner == call.accounts[1]
Vault == call.accounts[2]
IsDepositIx == call.data # <<>> /\ Head(call.data) = 0
IsWithdrawIx == call.data # <<>> /\ Head(call.data) = 1
Payload == Tail(call.data)
\* the account checks the two instructions share
OwnerSigns == HasThree /\ Owner \in call.signers
VaultSystemOwned == HasThree /\ OwnerOf(Vault) = SystemID
ThirdIsSystem == HasThree /\ call.accounts[3] = SystemID
AccountsValid == OwnerSigns /\ VaultSystemOwned /\ ThirdIsSystem
\* the payload is 8 bytes that decode to a positive amount
AmountValid == Len(Payload) = 8 /\ FromLeBytes(Payload) > 0
\* find_program_address: the highest bump whose hash is off the curve
CanonicalBump(owner) ==
    CHOOSE b \in 0..255 :
        /\ ~OnCurve(VaultSeeds(owner, b))
        /\ \A c \in (b + 1)..255 : OnCurve(VaultSeeds(owner, c))
CanonicalVault(owner) == SeedHash(VaultSeeds(owner, CanonicalBump(owner)))
\* the address is derived from the owner with some bump
IsDerivedVault(v, owner) ==
    \E b \in 0..255 : ~OnCurve(VaultSeeds(owner, b)) /\ v = SeedHash(VaultSeeds(owner, b))
\* the errors of the account checks
AccountErrors ==
    {"NotEnoughAccountKeys", "MissingRequiredSignature", "InvalidAccountOwner",
     "IncorrectProgramId", "InvalidAccountData"}

(********************************* claims **********************************)
\* C1: a Deposit that passes validation (3 accounts, owner signs, vault owned
\* by the system program, third account the system program, 8-byte payload of
\* amount a > 0) and whose owner holds at least a succeeds, takes exactly a from
\* the owner, gives exactly a to the vault and keeps their sum.
C1_DepositMovesAmount ==
    (Returned /\ IsDepositIx /\ AccountsValid /\ AmountValid
        /\ pre[Owner] >= FromLeBytes(Payload))
    => /\ result = "Ok"
       /\ lamports[Owner] = pre[Owner] - FromLeBytes(Payload)
       /\ lamports[Vault] = pre[Vault] + FromLeBytes(Payload)
       /\ lamports[Owner] + lamports[Vault] = pre[Owner] + pre[Vault]

\* C2: a Withdraw by a signing owner on the owner's vault (the canonical
\* derived address, owned by the system program, third account the system
\* program) with balance b > 0 leaves the vault at 0 and the owner b higher.
C2_WithdrawSweepsVault ==
    (Returned /\ IsWithdrawIx /\ AccountsValid
        /\ Vault = CanonicalVault(Owner) /\ pre[Vault] > 0)
    => /\ lamports[Vault] = 0
       /\ lamports[Owner] = pre[Owner] + pre[Vault]

C4_ZeroAmountAlwaysInvalidData ==
    (Returned /\ IsDepositIx /\ Len(Payload) = 8 /\ FromLeBytes(Payload) = 0)
    => result = "InvalidInstructionData"

\* C4 amended: a Deposit whose payload decodes to amount 0 always fails and
\* changes no balance; it fails with InvalidInstructionData when the account
\* list passes the account checks, and with the error of the first failing
\* account check otherwise.
C4_ZeroAmountFails ==
    (Returned /\ IsDepositIx /\ Len(Payload) = 8 /\ FromLeBytes(Payload) = 0)
    => /\ result # "Ok"
       /\ lamports = pre
       /\ AccountsValid => result = "InvalidInstructionData"
       /\ ~AccountsValid =>
            result \in {"NotEnoughAccountKeys", "MissingRequiredSignature",
                        "InvalidAccountOwner", "IncorrectProgramId"}

\* C4's case: a Deposit of amount 0 with valid accounts was rejected.
C4_Witness ==
    /\ Returned /\ IsDepositIx /\ AccountsValid
    /\ Len(Payload) = 8 /\ FromLeBytes(Payload) = 0
    /\ result = "InvalidInstructionData"

\* C5 as stated: a Withdraw on a vault whose balance is 0 fails with
\* InvalidAccountData and changes no balance.
C5_EmptyVaultAlwaysInvalidData ==
    (Returned /\ IsWithdrawIx /\ HasThree /\ pre[Vault] = 0)
    => (result = "InvalidAccountData" /\ lamports = pre)

\* C5 amended: a Withdraw on a vault whose balance is 0 always fails and
\* changes no balance; it fails with InvalidAccountData when the owner signs,
\* the vault is owned by the system program and the third account is the
\* system program, and with the error of the first failing check otherwise.
C5_EmptyVaultFails ==
    (Returned /\ IsWithdrawIx /\ HasThree /\ pre[Vault] = 0)
    => /\ result # "Ok"
       /\ lamports = pre
       /\ AccountsValid => result = "InvalidAccountData"
       /\ ~AccountsValid =>
            result \in {"MissingRequiredSignature", "InvalidAccountOwner",
                        "IncorrectProgramId"}

\* C5's case: a Withdraw with valid accounts on an empty vault was rejected.
C5_Witness ==
    /\ Returned /\ IsWithdrawIx /\ AccountsValid /\ pre[Vault] = 0
    /\ Vault \in PdaAddrs
    /\ result = "InvalidAccountData"

\* C6 as stated: when the vault (second account) is owned by another program
\* than the system program, any instruction fails with InvalidAccountOwner.
C6_ForeignVaultAlwaysInvalidOwner ==
    (Returned /\ Len(call.accounts) >= 2 /\ OwnerOf(Vault) # SystemID)
    => result = "InvalidAccountOwner"

\* C6 amended: when the vault (second account) is owned by another program
\* than the system program, every instruction fails and changes no balance;
\* a Deposit or Withdraw (first data byte 0 or 1) with at least 3 accounts and
\* a signing owner fails with InvalidAccountOwner.
C6_ForeignVaultFails ==
    (Returned /\ Len(call.accounts) >= 2 /\ OwnerOf(Vault) # SystemID)
    => /\ result # "Ok"
       /\ lamports = pre
       /\ ((IsDepositIx \/ IsWithdrawIx) /\ OwnerSigns)
            => result = "InvalidAccountOwner"

\* C6's case: a Deposit with a well-formed amount into a vault that the
\* vault program owns was rejected for the vault's owner.
C6_Witness ==
    /\ Returned /\ IsDepositIx /\ OwnerSigns /\ AmountValid
    /\ OwnerOf(Vault) = ID
    /\ result = "InvalidAccountOwner"
\* C7: for Deposit and Withdraw the account checks report the error of the
\* first failing check, in the order: fewer than 3 accounts
\* (NotEnoughAccountKeys), owner not a signer (MissingRequiredSignature), vault
\* not owned by the system program (InvalidAccountOwner), third account not
\* the system program (IncorrectProgramId), and for Withdraw only an empty
\* vault (InvalidAccountData); whatever the payload is, and no such error is
\* reported when every check passes.
C7_FirstFailingCheckWins ==
    (Returned /\ (IsDepositIx \/ IsWithdrawIx))
    => /\ ~HasThree => result = "NotEnoughAccountKeys"
       /\ (HasThree /\ ~OwnerSigns) => result = "MissingRequiredSignature"
       /\ (OwnerSigns /\ ~VaultSystemOwned) => result = "InvalidAccountOwner"
       /\ (OwnerSigns /\ VaultSystemOwned /\ ~ThirdIsSystem)
            => result = "IncorrectProgramId"
       /\ (IsWithdrawIx /\ AccountsValid /\ pre[Vault] = 0)
            => result = "InvalidAccountData"
       /\ (AccountsValid /\ (IsDepositIx \/ pre[Vault] > 0))
            => result \notin AccountErrors

\* C7's case: a Withdraw that fails three checks at once (the owner did not
\* sign, the vault is not owned by the system program, the third account is
\* not the system program) reported the earliest one.
C7_Witness ==
    /\ Returned /\ IsWithdrawIx /\ HasThree
    /\ ~OwnerSigns /\ ~VaultSystemOwned /\ ~ThirdIsSystem
    /\ result = "MissingRequiredSignature"

\* C8: whenever an instruction returns an error, every balance is what it
\* was before the instruction.
C8_ErrorChangesNothing ==
    (Returned /\ result # "Ok") => lamports = pre

\* C8's case: a validated Deposit whose transfer failed (the owner holds less
\* than the amount) left the ledger as it was.
C8_Witness ==
    /\ Returned /\ IsDepositIx /\ AccountsValid /\ AmountValid
    /\ result = "InsufficientFunds"
    /\ lamports = pre

\* C9: instruction data that is empty or starts with a byte other than 0 and
\* 1 fails with InvalidInstructionData and changes no balance, for every
\* account list; a first byte 0 goes to Deposit with the remaining bytes as
\* its payload (so with valid accounts the instruction fails with
\* InvalidInstructionData exactly when those bytes are not 8 bytes of a
\* positive amount), and a first byte 1 goes to Withdraw, whatever follows it.
C9_DispatchByFirstByte ==
    Returned =>
       /\ (call.data = <<>> \/ Head(call.data) \notin {0, 1})
            => (result = "InvalidInstructionData" /\ lamports = pre /\ route.to = "none")
       /\ IsDepositIx
            => /\ route = [to |-> "Deposit", payload |-> Tail(call.data)]
               /\ AccountsValid => (result = "InvalidInstructionData" <=> ~AmountValid)
       /\ IsWithdrawIx
            => /\ route.to = "Withdraw"
               /\ result # "InvalidInstructionData"
               /\ (AccountsValid /\ pre[Vault] = 0) => result = "InvalidAccountData"

\* C9's case: an unknown discriminator was rejected although the accounts
\* would have passed a Withdraw.
C9_Witness ==
    /\ Returned /\ call.data # <<>> /\ Head(call.data) = 2
    /\ AccountsValid /\ pre[Vault] > 0
    /\ result = "InvalidInstructionData" /\ lamports = pre

\* C10: every Deposit or Withdraw that moves balance into or out of its vault
\* account was given, as that account, the address derived from "vault", the
\* owner's address and some bump byte.
C10_TransferOnlyOnDerivedVault ==
    (Returned /\ (IsDepositIx \/ IsWithdrawIx) /\ result = "Ok"
        /\ lamports[Vault] # pre[Vault])
    => IsDerivedVault(Vault, Owner)
\* the sum of the balances of a ledger
TotalLamports(lam) ==
    LET RECURSIVE S(_)
        S(as) == IF as = {} THEN 0
                 ELSE LET a == CHOOSE x \in as : TRUE IN lam[a] + S(as \ {a})
    IN S(Addrs)

\* C11: after any sequence of instructions, successful or failing, the sum of
\* the balances of all accounts is the initial sum.
C11_TotalConserved ==
    /\ TotalLamports(lamports) = InitLamports * Cardinality(Keys)
    /\ TotalLamports(pre) = InitLamports * Cardinality(Keys)

\* C11's case: an instruction has moved balance between two accounts.
C11_Witness ==
    /\ Returned /\ result = "Ok"
    /\ \E a \in Addrs : lamports[a] > pre[a]
    /\ \E a \in Addrs : lamports[a] < pre[a]
\* the value of 8 bytes read as a little-endian number (the bytes above the
\* fourth are 0 in every payload the host sends here)
LeValue(p) == p[1] + 256 * p[2] + 65536 * p[3] + 16777216 * p[4]

\* C12: for a Deposit with valid accounts, a payload of any length other than
\* 8 bytes fails with InvalidInstructionData; an accepted payload is 8 bytes
\* read as a little-endian unsigned number, and that number is the amount
\* transferred: it is what leaves the owner and reaches the vault, and the
\* transfer is refused when the owner holds less.
C12_PayloadIsLeU64 ==
    (Returned /\ IsDepositIx /\ AccountsValid)
    => /\ Len(Payload) # 8 => (result = "InvalidInstructionData" /\ lamports = pre)
       /\ Len(Payload) = 8 =>
            /\ \A i \in 5..8 : Payload[i] = 0
            /\ LeValue(Payload) = 0 => result = "InvalidInstructionData"
            /\ (LeValue(Payload) > 0 /\ LeValue(Payload) > pre[Owner])
                 => result = "InsufficientFunds"
            /\ (LeValue(Payload) > 0 /\ LeValue(Payload) <= pre[Owner])
                 => /\ result = "Ok"
                    /\ Owner # Vault =>
                         /\ pre[Owner] - lamports[Owner] = LeValue(Payload)
                         /\ lamports[Vault] - pre[Vault] = LeValue(Payload)

\* C12's case: a Deposit of 2 lamports, sent as 02 00 00 00 00 00 00 00, moved
\* 2 lamports from the owner to the vault.
C12_Witness ==
    /\ Returned /\ IsDepositIx /\ AccountsValid /\ result = "Ok"
    /\ Payload = <<2, 0, 0, 0, 0, 0, 0, 0>>
    /\ Owner # Vault
    /\ pre[Owner] - lamports[Owner] = 2
    /\ lamports[Vault] - pre[Vault] = 2
\* the call with its account list cut to the first three accounts
FirstThree(c) ==
    [c EXCEPT !.accounts = SubSeq(c.accounts, 1, IF Len(c.accounts) < 3 THEN Len(c.accounts) ELSE 3)]
\* the call with its data cut to the discriminator
DiscriminatorOnly(c) == [c EXCEPT !.data = SubSeq(c.data, 1, 1)]

\* C13: the result and the balances after an instruction are those of the
\* same instruction given only the first three accounts, whatever the extra
\* accounts are; and those of a Withdraw whose data has bytes after the 0x01
\* are those of the Withdraw with data exactly [0x01].
C13_TrailingInputIgnored ==
    Returned =>
       /\ result = process_instruction(pre, FirstThree(call)).err
       /\ lamports = process_instruction(pre, FirstThree(call)).lam
       /\ IsWithdrawIx =>
            /\ result = process_instruction(pre, DiscriminatorOnly(call)).err
            /\ lamports = process_instruction(pre, DiscriminatorOnly(call)).lam
            /\ result = process_instruction(pre, DiscriminatorOnly(FirstThree(call))).err

\* C13's case: a Withdraw with an extra account and bytes after the
\* discriminator swept the vault.
C13_Witness ==
    /\ Returned /\ IsWithdrawIx /\ result = "Ok"
    /\ Len(call.accounts) > 3 /\ Len(call.data) > 1
    /\ Vault # Owner /\ pre[Vault] > 0 /\ lamports[Vault] = 0
\* C14: a validated Deposit whose amount exceeds the owner's balance fails
\* with the transfer's own error (InsufficientFunds), as the transfer
\* returned it, and leaves every balance as it was; and no balance is ever
\* below 0.
C14_OverdraftRefused ==
    /\ \A a \in Addrs : lamports[a] >= 0
    /\ (Returned /\ IsDepositIx /\ AccountsValid /\ AmountValid
          /\ FromLeBytes(Payload) > pre[Owner])
       => /\ result = Transfer(pre, Owner, Vault, FromLeBytes(Payload), call.signers).err
          /\ result = "InsufficientFunds"
          /\ lamports = pre

\* C14's case: a Deposit of 3 lamports by an owner who holds fewer failed in
\* the transfer.
C14_Witness ==
    /\ Returned /\ IsDepositIx /\ AccountsValid
    /\ Payload = <<3, 0, 0, 0, 0, 0, 0, 0>>
    /\ pre[Owner] < 3 /\ Owner # Vault
    /\ result = "InsufficientFunds"
    /\ lamports = pre
\* the vaults on the ledger derived from a key with a bump other than 255
OtherBumpVaults ==
    { SeedHash(VaultSeeds(kb[1], kb[2])) :
        kb \in { x \in Keys \X (Bumps \ {255}) : ~OnCurve(VaultSeeds(x[1], x[2])) } }

C17_OnlyOwnerAndVaultChange ==
    Returned =>
       \A a \in Addrs :
          lamports[a] # pre[a] => (HasThree /\ a \in {Owner, Vault})

\* C17's case: a Deposit with an extra account moved balance from the owner
\* to the vault and left the extra account, which is neither, as it was.
C17_Witness ==
    /\ Returned /\ IsDepositIx /\ result = "Ok"
    /\ Len(call.accounts) > 3
    /\ call.accounts[4] \notin {Owner, Vault}
    /\ call.accounts[4] \in Keys
    /\ lamports[Owner] < pre[Owner] /\ lamports[Vault] > pre[Vault]
    /\ lamports[call.accounts[4]] = pre[call.accounts[4]]
\* the instruction before this one succeeded and was of this kind
LastWas(disc) == last # NoLast /\ Head(last.call.data) = disc

\* C16: a successful Deposit into a correctly derived vault with balance 0,
\* followed by a successful Withdraw by the same owner on that vault, leaves
\* the ledger as it was before the Deposit: the owner's balance is back and
\* the vault's is 0.
C16_RoundTrip ==
    (Returned /\ IsWithdrawIx /\ result = "Ok" /\ LastWas(0)
        /\ last.call.accounts[1] = Owner /\ last.call.accounts[2] = Vault
        /\ last.pre[Vault] = 0
        /\ IsDerivedVault(Vault, Owner))
    => /\ lamports[Owner] = last.pre[Owner]
       /\ lamports[Vault] = 0
       /\ lamports = last.pre

\* C16's case: 2 lamports went into the owner's derived vault and came back.
C16_Witness ==
    /\ Returned /\ IsWithdrawIx /\ result = "Ok" /\ LastWas(0)
    /\ last.call.accounts[1] = Owner /\ last.call.accounts[2] = Vault
    /\ Vault = CanonicalVault(Owner)
    /\ last.pre[Vault] = 0 /\ pre[Vault] = 2
    /\ lamports = last.pre

\* C18: right after a successful Withdraw, a Withdraw with the same accounts
\* fails with InvalidAccountData and moves nothing.
C18_SecondWithdrawFails ==
    (Returned /\ IsWithdrawIx /\ LastWas(1) /\ call = last.call)
    => (result = "InvalidAccountData" /\ lamports = pre)
=============================================================================
